---- MODULE Spec2Model ----
(***************************************************************************)
(* Request pipeline of FortytwoIntraClient (src/src/index.ts, 221-495):    *)
(* the cached bearer token, the throttle gating resource calls and the     *)
(* retry loop of reqHandler, run by several concurrent descriptors.        *)
(*                                                                         *)
(* JavaScript runs each handler to its next await without interleaving, so *)
(* one action is one such run: from the arrival of a response (or the      *)
(* caller's invocation) through the catch block of reqHandler, the         *)
(* recursive call and the head of fetch, up to the moment the descriptor   *)
(* waits again (on the grant exchange, or on the throttle and the wire).   *)
(*                                                                         *)
(* The throttle (superagent-throttle) is modelled by its concurrency       *)
(* counter; its rate window only delays admission, which the interleaving  *)
(* of ThrottleSend already allows at any later moment.                     *)
(***************************************************************************)
EXTENDS Integers, Sequences, FiniteSets

\* Bounds of the model.
NumCalls == 2
MaxRetryBound == 2
MaxRate == 3
MaxPages == 3
MaxItems == 2

\* defaultConf.rate
DefaultRate == 2

Calls == 1..NumCalls

\* err.status of an error that carries no HTTP status (transport failure).
NoStatus == 0

\* this.access_token = null / options.token undefined.
NoToken == <<>>
\* The userToken a caller passes as options.token for descriptor c.
UserToken(c) == <<c>>
\* The access_token returned by the grant exchange of descriptor c's attempt a.
GrantedToken(c, a) == <<c, a>>

\* Statuses the resource endpoint answers with (NoStatus: no response at all).
ApiStatuses == {200, 401, 404, 429, 500, NoStatus}
\* Statuses the token endpoint answers with.
TokenStatuses == {200, 401, 429, 500, NoStatus}

VARIABLES
    maxRetry,      \* this.maxRetry
    rate,          \* config.rate
    access_token,  \* this.access_token
    current,       \* requests the throttle has sent and not yet seen end
    pc,            \* where each descriptor's reqHandler is suspended
    token,         \* options.token of each descriptor
    attempt,       \* options.attempt of each descriptor
    bearer,        \* Authorization bearer set on the descriptor's current request
    calls,         \* resource HTTP calls sent for the descriptor
    grants,        \* grant exchanges started by the descriptor
    hist,          \* outcome of each finished attempt of the descriptor
    thrown,        \* HttpError.status of the error thrown to the descriptor's caller
    ga,            \* where getAll is: "none" when the client runs no getAll
    perPage,       \* getAll's local perPage
    query,         \* page and per_page sent with each descriptor's request
    body,          \* res.body of each descriptor's success response
    link,          \* initialRes.header["link"]
    lastPage,      \* getAll's local lastPage
    result,        \* the body getAll returned
    arrived        \* descriptors in the order their success responses arrived

pageVars == <<ga, perPage, query, body, link, lastPage, result, arrived>>

vars == <<maxRetry, rate, access_token, current, pc, token, attempt, bearer,
          calls, grants, hist, thrown, pageVars>>

ApiOutcome(s) == [of |-> "api", status |-> s]
TokenOutcome(s) == [of |-> "token", status |-> s]

\* this.retryOn
retryOn == {401, 429, 500}

\* The rate itself passed as the concurrency.
Concurrent_Rate(r) == r

\* concurrent: config.rate - 1 > 0 ? config.rate - 1 : 1
Concurrent(r) == IF r - 1 > 0 THEN r - 1 ELSE 1

\* The per-call token not consulted: !this.access_token alone.
NeedsGrant_IgnoreOverride(ov, tok) == tok = NoToken

\* !options.token && !this.access_token
NeedsGrant(ov, tok) == ov = NoToken /\ tok = NoToken

\* options.token ? options.token.access_token : this.access_token
AccessToken(ov, tok) == IF ov # NoToken THEN ov ELSE tok

\* Variants of the retry condition that a slip in line 305-309 would give.
ShouldRetry_NoBudget(s, att, mr) == s \in retryOn
ShouldRetry_OffByOne(s, att, mr) == mr > 0 /\ att + 1 < mr /\ s \in retryOn
ShouldRetry_AnyStatus(s, att, mr) == mr > 0 /\ att < mr /\ s # NoStatus
ShouldRetry_Transport(s, att, mr) == mr > 0 /\ att < mr /\ (s \in retryOn \/ s = NoStatus)

\* maxRetry > 0 && attempt < maxRetry && this.retryOn.includes(err.status)
ShouldRetry(s, att, mr) == mr > 0 /\ att < mr /\ s \in retryOn

\* The cache cleared before every retry, whatever the status.
AfterInvalidate_AnyStatus(s, tok) == NoToken

\* The 401 branch left out: the rejected token stays cached.
AfterInvalidate_Never(s, tok) == tok

\* if (err.status === 401) this.access_token = null
AfterInvalidate(s, tok) == IF s = 401 THEN NoToken ELSE tok

\* this.status = err.status || null
HttpErrorStatus(s) == IF s # NoStatus THEN s ELSE NoStatus

\* The increment left out: a retry does not use up the budget.
NextAttempt_Stuck(att) == att

\* options.attempt++
NextAttempt(att) == att + 1

\* fetch without the token check: the request is built with whatever is cached.
FetchPc_NoGrant(ov, tok) == "queued"

\* Head of fetch, run with cached token tok: where the descriptor waits next.
FetchPc(ov, tok) == IF NeedsGrant(ov, tok) THEN "grant" ELSE "queued"
FetchBearer(ov, tok) == IF NeedsGrant(ov, tok) THEN NoToken ELSE AccessToken(ov, tok)
FetchGrants(ov, tok, g) == IF NeedsGrant(ov, tok) THEN g + 1 ELSE g

\* A request sent without page parameters, a response body not received, the
\* link header absent (header["link"] undefined).
NoQuery == [page |-> 0, per_page |-> 0]
NoBody == [array |-> FALSE, items |-> <<>>]
NoHeader == <<>>

\* The client runs direct calls only.
NoGetAll ==
    /\ ga = "none"
    /\ perPage = 0
    /\ query = [c \in Calls |-> NoQuery]
    /\ body = [c \in Calls |-> NoBody]
    /\ link = NoHeader
    /\ lastPage = 0
    /\ result = NoBody
    /\ arrived = <<>>

Init ==
    /\ maxRetry \in 0..MaxRetryBound
    /\ rate = DefaultRate
    /\ access_token = NoToken
    /\ current = 0
    /\ pc = [c \in Calls |-> "idle"]
    /\ token = [c \in Calls |-> NoToken]
    /\ attempt = [c \in Calls |-> 0]
    /\ bearer = [c \in Calls |-> NoToken]
    /\ calls = [c \in Calls |-> 0]
    /\ grants = [c \in Calls |-> 0]
    /\ hist = [c \in Calls |-> <<>>]
    /\ thrown = [c \in Calls |-> NoStatus]
    /\ NoGetAll

\* A single-flight guard: a call that finds a grant exchange pending does not
\* start one of its own.
Start_SingleFlight(c, ov) ==
    /\ pc[c] = "idle"
    /\ token' = [token EXCEPT ![c] = ov]
    /\ pc' = [pc EXCEPT ![c] = IF \E d \in Calls : pc[d] = "grant"
                               THEN "queued" ELSE FetchPc(ov, access_token)]
    /\ bearer' = [bearer EXCEPT ![c] = FetchBearer(ov, access_token)]
    /\ grants' = [grants EXCEPT ![c] = IF \E d \in Calls : pc[d] = "grant"
                                       THEN @ ELSE FetchGrants(ov, access_token, @)]
    /\ UNCHANGED <<maxRetry, rate, access_token, current, attempt, calls, hist, thrown, pageVars>>

\* get/post/patch/delete: build the descriptor (attempt 0) and enter reqHandler.
Start(c, ov) ==
    /\ pc[c] = "idle"
    /\ token' = [token EXCEPT ![c] = ov]
    /\ pc' = [pc EXCEPT ![c] = FetchPc(ov, access_token)]
    /\ bearer' = [bearer EXCEPT ![c] = FetchBearer(ov, access_token)]
    /\ grants' = [grants EXCEPT ![c] = FetchGrants(ov, access_token, @)]
    /\ UNCHANGED <<maxRetry, rate, access_token, current, attempt, calls, hist, thrown, pageVars>>

\* One options object shared by all descriptors: a retry of one counts for all.
Catch_SharedAttempt(c, o) ==
    LET s == o.status
        retry == ShouldRetry(s, attempt[c], maxRetry)
        tok == IF retry THEN AfterInvalidate(s, access_token) ELSE access_token
    IN /\ hist' = [hist EXCEPT ![c] = Append(@, o)]
       /\ access_token' = tok
       /\ attempt' = [q \in DOMAIN attempt |-> IF retry THEN NextAttempt(attempt[q]) ELSE attempt[q]]
       /\ pc' = [pc EXCEPT ![c] = IF retry THEN FetchPc(token[c], tok) ELSE "err"]
       /\ bearer' = [bearer EXCEPT ![c] = IF retry THEN FetchBearer(token[c], tok) ELSE @]
       /\ grants' = [grants EXCEPT ![c] = IF retry THEN FetchGrants(token[c], tok, @) ELSE @]
       /\ thrown' = [thrown EXCEPT ![c] = IF retry THEN @ ELSE HttpErrorStatus(s)]

\* catch block of reqHandler for an error with status s, then (on retry) the
\* recursive reqHandler call up to its next await.
Catch(c, o) ==
    LET s == o.status
        retry == ShouldRetry(s, attempt[c], maxRetry)
        tok == IF retry THEN AfterInvalidate(s, access_token) ELSE access_token
    IN /\ hist' = [hist EXCEPT ![c] = Append(@, o)]
       /\ access_token' = tok
       /\ attempt' = [attempt EXCEPT ![c] = IF retry THEN NextAttempt(@) ELSE @]
       /\ pc' = [pc EXCEPT ![c] = IF retry THEN FetchPc(token[c], tok) ELSE "err"]
       /\ bearer' = [bearer EXCEPT ![c] = IF retry THEN FetchBearer(token[c], tok) ELSE @]
       /\ grants' = [grants EXCEPT ![c] = IF retry THEN FetchGrants(token[c], tok, @) ELSE @]
       /\ thrown' = [thrown EXCEPT ![c] = IF retry THEN @ ELSE HttpErrorStatus(s)]

\* generateToken resolves: the token is cached and attached, the request is
\* handed to the throttle.
GrantOk(c) ==
    /\ pc[c] = "grant"
    /\ access_token' = GrantedToken(c, attempt[c])
    /\ bearer' = [bearer EXCEPT ![c] = AccessToken(token[c], access_token')]
    /\ pc' = [pc EXCEPT ![c] = "queued"]
    /\ UNCHANGED <<maxRetry, rate, current, token, attempt, calls, grants, hist, thrown, pageVars>>

\* generateToken rejects with status s: the rejection lands in reqHandler's catch.
GrantFail(c, s) ==
    /\ pc[c] = "grant"
    /\ s # 200
    /\ Catch(c, TokenOutcome(s))
    /\ UNCHANGED <<maxRetry, rate, current, token, calls, pageVars>>

\* A throttle that sends without taking a slot.
ThrottleSend_NoCount(c) ==
    /\ pc[c] = "queued"
    /\ current < Concurrent(rate)
    /\ current' = current
    /\ pc' = [pc EXCEPT ![c] = "inflight"]
    /\ calls' = [calls EXCEPT ![c] = @ + 1]
    /\ UNCHANGED <<maxRetry, rate, access_token, token, attempt, bearer, grants, hist, thrown, pageVars>>

\* The throttle sends a queued request when a concurrency slot is free.
ThrottleSend(c) ==
    /\ pc[c] = "queued"
    /\ current < Concurrent(rate)
    /\ current' = current + 1
    /\ pc' = [pc EXCEPT ![c] = "inflight"]
    /\ calls' = [calls EXCEPT ![c] = @ + 1]
    /\ UNCHANGED <<maxRetry, rate, access_token, token, attempt, bearer, grants, hist, thrown, pageVars>>

\* The resource call returns a success response.
RespondOk(c) ==
    /\ pc[c] = "inflight"
    /\ current' = current - 1
    /\ pc' = [pc EXCEPT ![c] = "ok"]
    /\ hist' = [hist EXCEPT ![c] = Append(@, ApiOutcome(200))]
    /\ UNCHANGED <<maxRetry, rate, access_token, token, attempt, bearer, calls, grants, thrown, pageVars>>

\* A throttle that frees the slot on success only.
RespondErr_KeepsPermit(c, s) ==
    /\ pc[c] = "inflight"
    /\ s # 200
    /\ current' = current
    /\ Catch(c, ApiOutcome(s))
    /\ UNCHANGED <<maxRetry, rate, token, calls, pageVars>>

\* The resource call fails with status s (NoStatus: no response).
RespondErr(c, s) ==
    /\ pc[c] = "inflight"
    /\ s # 200
    /\ current' = current - 1
    /\ Catch(c, ApiOutcome(s))
    /\ UNCHANGED <<maxRetry, rate, token, calls, pageVars>>

Next ==
    \E c \in Calls :
        \/ \E ov \in {NoToken, UserToken(c)} : Start(c, ov)
        \/ GrantOk(c)
        \/ \E s \in TokenStatuses : GrantFail(c, s)
        \/ ThrottleSend(c)
        \/ RespondOk(c)
        \/ \E s \in ApiStatuses : RespondErr(c, s)

Spec == Init /\ [][Next]_vars

\* The environment a terminating execute relies on: a grant exchange or a
\* resource call that is pending eventually returns (with some outcome), and
\* the throttle eventually sends a request that waits in its queue while a
\* slot is free.
Returns(c) ==
    \/ GrantOk(c)
    \/ \E s \in TokenStatuses : GrantFail(c, s)
    \/ RespondOk(c)
    \/ \E s \in ApiStatuses : RespondErr(c, s)
Fairness ==
    \A c \in Calls : WF_vars(Returns(c)) /\ WF_vars(ThrottleSend(c))
\* Clients constructed with a retry budget up to FairRetryBound.
FairRetryBound == 1
InitFair == Init /\ maxRetry <= FairRetryBound
SpecFair == InitFair /\ [][Next]_vars /\ Fairness

\* The same client constructed with any rate: conf.rate overrides the default.
InitRates ==
    /\ maxRetry \in 0..MaxRetryBound
    /\ rate \in 1..MaxRate
    /\ access_token = NoToken
    /\ current = 0
    /\ pc = [c \in Calls |-> "idle"]
    /\ token = [c \in Calls |-> NoToken]
    /\ attempt = [c \in Calls |-> 0]
    /\ bearer = [c \in Calls |-> NoToken]
    /\ calls = [c \in Calls |-> 0]
    /\ grants = [c \in Calls |-> 0]
    /\ hist = [c \in Calls |-> <<>>]
    /\ thrown = [c \in Calls |-> NoStatus]
    /\ NoGetAll

SpecRates == InitRates /\ [][Next]_vars

TypeOK ==
    /\ maxRetry \in 0..MaxRetryBound
    /\ rate \in Nat \ {0}
    /\ current \in 0..NumCalls
    /\ \A c \in Calls :
        /\ pc[c] \in {"idle", "grant", "queued", "inflight", "ok", "err"}
        /\ attempt[c] \in Nat
        /\ calls[c] \in Nat
        /\ grants[c] \in Nat
        /\ thrown[c] \in ApiStatuses \cup TokenStatuses

----------------------------------------------------------------------------
\* getAll (index.ts 411-459): page 1, getLastPage on its link header, the
\* fan-out of pages 2..lastPage and Promise.all. Descriptor p carries page p.

Pages == 1..MaxPages

\* const perPage = options.perPage || 100
DefaultPerPage == 100
\* query: { page: 1, per_page: 100 } of the page-1 request
Page1PerPage == 100
\* A perPage the caller passes (README: perPage: 50).
CustomPerPage == 50
PerPage(pp) == IF pp # 0 THEN pp ELSE DefaultPerPage

\* Response bodies: an array of n items of page p, or a single object (held
\* as the one thing the body contains).
Item(p, i) == [page |-> p, idx |-> i]
ArrayBody(p, n) == [array |-> TRUE, items |-> [i \in 1..n |-> Item(p, i)]]
ObjectBody(p) == [array |-> FALSE, items |-> <<Item(p, 0)>>]
PageBodies(p) ==
    {ArrayBody(p, n) : n \in 0..MaxItems} \cup (IF p = 1 THEN {ObjectBody(p)} ELSE {})

\* Link headers. A header is the sequence of its comma-separated parts; a part
\* that matches <url>; rel="name" gives the relation and the url, whose page
\* parameter is missing, not a number, or an integer.
PageParam(n) == [kind |-> "int", n |-> n]
NoPageParam == [kind |-> "missing", n |-> 0]
TextPageParam == [kind |-> "text", n |-> 0]
Garbage == [rel |-> "", valid |-> FALSE, page |-> NoPageParam]
Rel(name, pg) == [rel |-> name, valid |-> TRUE, page |-> pg]
RelBadUrl(name) == [rel |-> name, valid |-> FALSE, page |-> NoPageParam]

LinkHeaders ==
    {NoHeader, <<Garbage>>, <<Rel("next", PageParam(2))>>,
     <<RelBadUrl("last")>>, <<Rel("last", NoPageParam)>>,
     <<Rel("last", TextPageParam)>>, <<Rel("last", PageParam(0))>>,
     <<Rel("last", PageParam(-1))>>,
     <<Rel("last", PageParam(1)), Rel("next", PageParam(2)), Rel("last", PageParam(MaxPages))>>}
    \cup {<<Rel("next", PageParam(2)), Rel("last", PageParam(n))>> : n \in 1..MaxPages}

\* The mapping rel -> url built by reduce: a later part overwrites an earlier one.
LastRelIndex(h) ==
    IF \E i \in 1..Len(h) : h[i].rel = "last"
    THEN CHOOSE i \in 1..Len(h) :
            h[i].rel = "last" /\ \A j \in (i + 1)..Len(h) : h[j].rel # "last"
    ELSE 0

Thrown == [throws |-> TRUE, n |-> 0]
Returned(n) == [throws |-> FALSE, n |-> n]

\* A header without usable last relation read as a single page.
GetLastPage_DefaultOne(h) ==
    IF h = NoHeader \/ LastRelIndex(h) = 0 THEN Returned(1)
    ELSE LET u == h[LastRelIndex(h)]
         IN IF ~u.valid \/ u.page.kind # "int" \/ u.page.n = 0 THEN Returned(1)
            ELSE Returned(u.page.n)

\* getLastPage: throws, or returns the page number of the last relation.
GetLastPage(h) ==
    IF h = NoHeader THEN Thrown
    ELSE IF LastRelIndex(h) = 0 THEN Thrown
    ELSE LET u == h[LastRelIndex(h)]
         IN IF ~u.valid THEN Thrown
            ELSE IF u.page.kind = "missing" THEN Thrown
            ELSE IF u.page.kind = "text" THEN Thrown
            ELSE IF u.page.n = 0 THEN Thrown
            ELSE Returned(u.page.n)

\* The loop stopping one page early: i < lastPage.
FanOut_SkipLast(n) == 2..(n - 1)

\* for (let i = 2; i <= lastPage; i++)
FanOut(n) == 2..n

\* concat's argument: an array is spread, anything else is appended as it is.
ConcatArg(b) == IF b.array THEN b.items ELSE <<b>>

RECURSIVE ConcatFrom(_, _, _)
ConcatFrom(bd, order, i) ==
    IF i > Len(order) THEN <<>>
    ELSE ConcatArg(bd[order[i]]) \o ConcatFrom(bd, order, i + 1)

\* The page numbers 2..n in ascending order, and in the order of arrival.
Ascending(n) == [i \in 1..(IF n >= 2 THEN n - 1 ELSE 0) |-> i + 1]
ByArrival(arr) == SelectSeq(arr, LAMBDA p : p # 1)

\* The bodies concatenated in the order the responses arrived.
ConcatPages_ByArrival(bd, n, arr) ==
    [array |-> TRUE, items |-> bd[1].items \o ConcatFrom(bd, ByArrival(arr), 1)]

\* initialRes.body.concat(...values.map(value => value.body)): Promise.all
\* yields the values in the order of the promises, whatever the arrival order.
ConcatPages(bd, n, arr) ==
    [array |-> TRUE, items |-> bd[1].items \o ConcatFrom(bd, Ascending(n), 1)]

\* Promise.all that waits for every page and keeps the fulfilled ones.
Settled_IgnoreRejected(st, n) ==
    IF \A p \in FanOut(n) : st[p] \in {"ok", "err"} THEN "fulfilled" ELSE "pending"

\* Promise.all over the promises of pages 2..n, from the descriptors' states.
Settled(st, n) ==
    IF \E p \in FanOut(n) : st[p] = "err" THEN "rejected"
    ELSE IF \A p \in FanOut(n) : st[p] = "ok" THEN "fulfilled"
    ELSE "pending"

InitPages ==
    /\ maxRetry \in 0..MaxRetryBound
    /\ rate = DefaultRate
    /\ access_token = NoToken
    /\ current = 0
    /\ pc = [c \in Pages |-> "idle"]
    /\ token = [c \in Pages |-> NoToken]
    /\ attempt = [c \in Pages |-> 0]
    /\ bearer = [c \in Pages |-> NoToken]
    /\ calls = [c \in Pages |-> 0]
    /\ grants = [c \in Pages |-> 0]
    /\ hist = [c \in Pages |-> <<>>]
    /\ thrown = [c \in Pages |-> NoStatus]
    /\ ga = "idle"
    /\ perPage = 0
    /\ query = [c \in Pages |-> NoQuery]
    /\ body = [c \in Pages |-> NoBody]
    /\ link = NoHeader
    /\ lastPage = 0
    /\ result = NoBody
    /\ arrived = <<>>

\* getAll is called: perPage is read and page 1 enters reqHandler.
GetAllStart(ov, pp) ==
    /\ ga = "idle"
    /\ pc[1] = "idle"
    /\ ga' = "page1"
    /\ perPage' = PerPage(pp)
    /\ query' = [query EXCEPT ![1] = [page |-> 1, per_page |-> Page1PerPage]]
    /\ token' = [token EXCEPT ![1] = ov]
    /\ pc' = [pc EXCEPT ![1] = FetchPc(ov, access_token)]
    /\ bearer' = [bearer EXCEPT ![1] = FetchBearer(ov, access_token)]
    /\ grants' = [grants EXCEPT ![1] = FetchGrants(ov, access_token, @)]
    /\ UNCHANGED <<maxRetry, rate, access_token, current, attempt, calls, hist, thrown,
                   body, link, lastPage, result, arrived>>

\* The state of getAll after the state st of the fan-out's descriptors changed:
\* Promise.all settles, and then() concatenates (a page-1 body without concat
\* makes it throw).
AfterPages(st, bd, arr) ==
    IF ga # "fanout" THEN [ga |-> ga, result |-> result]
    ELSE IF Settled(st, lastPage) = "rejected" THEN [ga |-> "err", result |-> result]
    ELSE IF Settled(st, lastPage) = "pending" THEN [ga |-> ga, result |-> result]
    ELSE IF bd[1].array THEN [ga |-> "ok", result |-> ConcatPages(bd, lastPage, arr)]
    ELSE [ga |-> "err", result |-> result]

\* Page 1 succeeds: getLastPage reads its link header; getAll returns the body,
\* or starts pages 2..lastPage, each entering reqHandler in the same run.
Page1Ok(b, l) ==
    /\ ga = "page1"
    /\ pc[1] = "inflight"
    /\ current' = current - 1
    /\ hist' = [hist EXCEPT ![1] = Append(@, ApiOutcome(200))]
    /\ body' = [body EXCEPT ![1] = b]
    /\ link' = l
    /\ arrived' = Append(arrived, 1)
    /\ LET r == GetLastPage(l)
           started == IF r.throws THEN {} ELSE FanOut(r.n)
       IN /\ lastPage' = r.n
          /\ pc' = [c \in Pages |-> IF c = 1 THEN "ok"
                                    ELSE IF c \in started THEN FetchPc(token[1], access_token)
                                    ELSE pc[c]]
          /\ token' = [c \in Pages |-> IF c \in started THEN token[1] ELSE token[c]]
          /\ bearer' = [c \in Pages |-> IF c \in started
                                        THEN FetchBearer(token[1], access_token)
                                        ELSE bearer[c]]
          /\ grants' = [c \in Pages |-> IF c \in started
                                        THEN FetchGrants(token[1], access_token, grants[c])
                                        ELSE grants[c]]
          /\ query' = [c \in Pages |-> IF c \in started
                                       THEN [page |-> c, per_page |-> perPage]
                                       ELSE query[c]]
          /\ IF r.throws
             THEN ga' = "ok" /\ result' = b
             ELSE IF started # {}
             THEN ga' = "fanout" /\ result' = result
             ELSE IF b.array
             THEN ga' = "ok" /\ result' = ConcatPages(body', r.n, arrived')
             ELSE ga' = "err" /\ result' = result
    /\ UNCHANGED <<maxRetry, rate, access_token, attempt, calls, thrown, perPage>>

\* A page of the fan-out succeeds.
PageOk(c, b) ==
    /\ c # 1
    /\ pc[c] = "inflight"
    /\ current' = current - 1
    /\ pc' = [pc EXCEPT ![c] = "ok"]
    /\ hist' = [hist EXCEPT ![c] = Append(@, ApiOutcome(200))]
    /\ body' = [body EXCEPT ![c] = b]
    /\ arrived' = Append(arrived, c)
    /\ ga' = AfterPages(pc', body', arrived').ga
    /\ result' = AfterPages(pc', body', arrived').result
    /\ UNCHANGED <<maxRetry, rate, access_token, token, attempt, bearer, calls, grants,
                   thrown, perPage, query, link, lastPage>>

\* The rejection of a descriptor reaches getAll: page 1's through the await,
\* a later page's through Promise.all.
AfterCatch(c) ==
    /\ ga' = IF c = 1 THEN (IF pc'[1] = "err" THEN "err" ELSE ga)
             ELSE AfterPages(pc', body, arrived).ga
    /\ UNCHANGED <<perPage, query, body, link, lastPage, result, arrived>>

PageGrantFail(c, s) ==
    /\ pc[c] = "grant"
    /\ s # 200
    /\ Catch(c, TokenOutcome(s))
    /\ AfterCatch(c)
    /\ UNCHANGED <<maxRetry, rate, current, token, calls>>

PageErr(c, s) ==
    /\ pc[c] = "inflight"
    /\ s # 200
    /\ current' = current - 1
    /\ Catch(c, ApiOutcome(s))
    /\ AfterCatch(c)
    /\ UNCHANGED <<maxRetry, rate, token, calls>>

\* Statuses the endpoints answer with while getAll runs.
PageStatuses == {200, 401, 404}
PageTokenStatuses == {200, 500}

NextPages ==
    \/ \E ov \in {NoToken, UserToken(1)}, pp \in {0, CustomPerPage} : GetAllStart(ov, pp)
    \/ \E b \in PageBodies(1), l \in LinkHeaders : Page1Ok(b, l)
    \/ \E c \in Pages :
        \/ GrantOk(c)
        \/ \E s \in PageTokenStatuses : PageGrantFail(c, s)
        \/ ThrottleSend(c)
        \/ \E b \in PageBodies(c) : PageOk(c, b)
        \/ \E s \in PageStatuses : PageErr(c, s)

SpecPages == InitPages /\ [][NextPages]_vars

----------------------------------------------------------------------------
\* Vocabulary of the properties.

Done(c) == pc[c] \in {"ok", "err"}
Last(h) == h[Len(h)]
\* Statuses the specification calls retry-eligible.
RetryEligible == {401, 429}
\* 4xx statuses other than 401 and 429.
Other4xx == {s \in ApiStatuses : s >= 400 /\ s < 500 /\ s \notin RetryEligible}
\* h is k throttled responses (429) followed by nothing else.
Throttled(h, k) == Len(h) = k /\ \A i \in 1..k : h[i] = ApiOutcome(429)

\* C1: the attempt counter of every descriptor stays within 0..maxRetry in
\* every reachable state, for every maxRetry and every sequence of responses.
C1_AttemptBounded ==
    \A c \in Calls : attempt[c] >= 0 /\ attempt[c] <= maxRetry

\* A descriptor that used its whole budget and failed on a retryable status.
C1_Witness ==
    \E c \in Calls :
        /\ maxRetry = MaxRetryBound
        /\ attempt[c] = maxRetry
        /\ pc[c] = "err"
        /\ Len(hist[c]) = maxRetry + 1
        /\ thrown[c] \in retryOn

\* C2: a resource response with status 500 is terminal on the attempt that
\* receives it: it is the descriptor's last outcome and execute has failed,
\* so no retry follows and attempt is not incremented.
C2_Status500Terminal ==
    \A c \in Calls : \A i \in 1..Len(hist[c]) :
        hist[c][i] = ApiOutcome(500) =>
            /\ i = Len(hist[c])
            /\ pc[c] = "err"
            /\ attempt[c] = i - 1

\* C3: when the first attempt of a descriptor is answered with a 4xx status
\* other than 401 and 429, execute has failed at once: one outcome, one
\* resource call, attempt still 0, whatever maxRetry is.
C3_Other4xxFailsAtOnce ==
    \A c \in Calls :
        (Len(hist[c]) >= 1 /\ hist[c][1].of = "api" /\ hist[c][1].status \in Other4xx) =>
            /\ pc[c] = "err"
            /\ Len(hist[c]) = 1
            /\ calls[c] = 1
            /\ attempt[c] = 0
            /\ thrown[c] = hist[c][1].status

\* A 404 on the first attempt of a descriptor that had retries left.
C3_Witness ==
    \E c \in Calls :
        /\ maxRetry = MaxRetryBound
        /\ hist[c] = <<ApiOutcome(404)>>
        /\ pc[c] = "err"

\* C4: with maxRetry = 0 no descriptor retries: attempt stays 0, at most one
\* outcome and one resource call exist, a resource response means exactly one
\* call was made, and an error outcome (401 and 429 included) is terminal.
C4_ZeroBudgetNeverRetries ==
    maxRetry = 0 =>
        \A c \in Calls :
            /\ attempt[c] = 0
            /\ calls[c] <= 1
            /\ Len(hist[c]) <= 1
            /\ Len(hist[c]) = 1 =>
                /\ Done(c)
                /\ hist[c][1].of = "api" => calls[c] = 1
                /\ hist[c][1].status # 200 => pc[c] = "err" /\ thrown[c] = hist[c][1].status

\* maxRetry = 0 and a 429 response: the descriptor failed on its only call.
C4_Witness ==
    \E c \in Calls :
        /\ maxRetry = 0
        /\ hist[c] = <<ApiOutcome(429)>>
        /\ pc[c] = "err"
        /\ calls[c] = 1

\* C5: a descriptor answered with k consecutive 429 responses (k <= maxRetry,
\* maxRetry > 0) is retried each time, with attempt = k and k or k+1 resource
\* calls made; once the success response follows, execute has returned
\* success with attempt = k after exactly k+1 resource calls.
C5_ThrottledThenSuccess ==
    \A c \in Calls : \A k \in 0..maxRetry :
        /\ (maxRetry > 0 /\ Throttled(hist[c], k)) =>
            /\ pc[c] \in {"idle", "grant", "queued", "inflight"}
            /\ attempt[c] = k
            /\ calls[c] = IF pc[c] = "inflight" THEN k + 1 ELSE k
        /\ (maxRetry > 0 /\ Len(hist[c]) = k + 1 /\ Throttled(SubSeq(hist[c], 1, k), k)
                /\ hist[c][k + 1] = ApiOutcome(200)) =>
            /\ pc[c] = "ok"
            /\ attempt[c] = k
            /\ calls[c] = k + 1

\* maxRetry = 2 and the responses 429, 429, 200.
C5_Witness ==
    \E c \in Calls :
        /\ maxRetry = 2
        /\ hist[c] = <<ApiOutcome(429), ApiOutcome(429), ApiOutcome(200)>>
        /\ pc[c] = "ok"

\* C6: no descriptor ever makes more than maxRetry+1 resource calls; when
\* maxRetry > 0 and every outcome of a finished descriptor is a 401 or 429
\* response, execute failed after exactly maxRetry+1 resource calls with
\* attempt = maxRetry, and the error carries the status of the last response.
C6_RetryableExhausts ==
    \A c \in Calls :
        /\ calls[c] <= maxRetry + 1
        /\ (/\ maxRetry > 0
            /\ Done(c)
            /\ \A i \in 1..Len(hist[c]) :
                  hist[c][i].of = "api" /\ hist[c][i].status \in RetryEligible) =>
            /\ pc[c] = "err"
            /\ calls[c] = maxRetry + 1
            /\ Len(hist[c]) = maxRetry + 1
            /\ attempt[c] = maxRetry
            /\ thrown[c] = Last(hist[c]).status

\* maxRetry = 2 and the responses 401, 429, 401: failed with status 401.
C6_Witness ==
    \E c \in Calls :
        /\ maxRetry = 2
        /\ hist[c] = <<ApiOutcome(401), ApiOutcome(429), ApiOutcome(401)>>
        /\ pc[c] = "err"
        /\ thrown[c] = 401

\* C7 as stated: a descriptor that finished with attempt = maxRetry either
\* succeeded or failed with a retry-eligible status (401 or 429).
C7_ExhaustedMeansRetryable ==
    \A c \in Calls :
        (Done(c) /\ attempt[c] = maxRetry) =>
            \/ pc[c] = "ok"
            \/ pc[c] = "err" /\ thrown[c] \in RetryEligible

\* C7 as amended: a descriptor that failed terminally with a retry-eligible
\* status (401 or 429) has used its whole budget, attempt = maxRetry.
C7_RetryableFailureMeansExhausted ==
    \A c \in Calls :
        (pc[c] = "err" /\ thrown[c] \in RetryEligible) => attempt[c] = maxRetry

\* A descriptor that failed with 429 after using a budget of two retries.
C7_Witness ==
    \E c \in Calls :
        /\ maxRetry = 2
        /\ pc[c] = "err"
        /\ thrown[c] = 429
        /\ Last(hist[c]) = ApiOutcome(429)
        /\ attempt[c] = 2

\* Descriptor c receives the resource response 401 in this step, with budget left.
Retried401(c) ==
    /\ pc[c] = "inflight"
    /\ hist'[c] = Append(hist[c], ApiOutcome(401))
    /\ attempt[c] < maxRetry

\* C8: a descriptor without override that receives a 401 within its budget
\* clears the cached token and starts a new grant exchange in the same step;
\* the call retried after a 401 carries the token that exchange returned; a
\* single call answered 401 then success ends with attempt = 1 after exactly
\* two grant exchanges.
C8_Reauthenticate ==
    /\ [][\A c \in Calls :
            (Retried401(c) /\ token[c] = NoToken) =>
                /\ access_token' = NoToken
                /\ pc'[c] = "grant"
                /\ grants'[c] = grants[c] + 1
                /\ attempt'[c] = attempt[c] + 1]_vars
    /\ [](\A c \in Calls :
            /\ (/\ token[c] = NoToken
                /\ pc[c] \in {"queued", "inflight"}
                /\ Len(hist[c]) >= 1
                /\ Last(hist[c]) = ApiOutcome(401)) =>
                    bearer[c] = GrantedToken(c, attempt[c])
            /\ (/\ token[c] = NoToken
                /\ \A d \in Calls \ {c} : pc[d] = "idle"
                /\ hist[c] = <<ApiOutcome(401), ApiOutcome(200)>>) =>
                    /\ pc[c] = "ok"
                    /\ attempt[c] = 1
                    /\ grants[c] = 2
                    /\ bearer[c] = GrantedToken(c, 1))

\* The only call of the client got 401 once and then succeeded.
C8_Witness ==
    \E c \in Calls :
        /\ token[c] = NoToken
        /\ \A d \in Calls \ {c} : pc[d] = "idle"
        /\ hist[c] = <<ApiOutcome(401), ApiOutcome(200)>>
        /\ pc[c] = "ok"

\* C9: a descriptor with a per-call token never starts a grant exchange, and
\* every request it queues or sends carries that token, cached token or not.
C9_OverrideBypassesCache ==
    \A c \in Calls :
        token[c] # NoToken =>
            /\ grants[c] = 0
            /\ pc[c] # "grant"
            /\ pc[c] \in {"queued", "inflight"} => bearer[c] = token[c]

\* A retried call with a per-call token in flight while another token is cached.
C9_Witness ==
    \E c \in Calls :
        /\ token[c] # NoToken
        /\ pc[c] = "inflight"
        /\ attempt[c] >= 1
        /\ access_token # NoToken
        /\ bearer[c] = token[c]

\* C10: a failed grant exchange is the last outcome of its descriptor: no
\* resource call follows it and the caller of execute receives an error.
C10_GrantFailureFatal ==
    \A c \in Calls : \A i \in 1..Len(hist[c]) :
        hist[c][i].of = "token" =>
            /\ i = Len(hist[c])
            /\ pc[c] = "err"

\* Descriptor c finishes an attempt in this step.
AttemptEnds(c) == Len(hist'[c]) = Len(hist[c]) + 1

\* C11: a failed grant exchange is never retried: the step in which the grant
\* exchange of a descriptor fails neither increments its attempt counter nor
\* starts another grant exchange for it, whatever status the token endpoint
\* answered.
C11_GrantFailureNotRetried ==
    [][\A c \in Calls :
        (pc[c] = "grant" /\ AttemptEnds(c)) =>
            /\ attempt'[c] = attempt[c]
            /\ grants'[c] = grants[c]
            /\ pc'[c] = "err"]_vars

\* C12: an attempt that ends without a response (no status) is the last one:
\* execute has failed with an error that carries no status, attempt was not
\* incremented (it equals the number of earlier attempts), and the step that
\* handles the failure leaves the cached token as it was, for every maxRetry.
C12_TransportFailureFatal ==
    /\ [](\A c \in Calls : \A i \in 1..Len(hist[c]) :
            hist[c][i].status = NoStatus =>
                /\ i = Len(hist[c])
                /\ pc[c] = "err"
                /\ attempt[c] = i - 1
                /\ thrown[c] = NoStatus)
    /\ [][\A c \in Calls :
            (AttemptEnds(c) /\ Last(hist'[c]).status = NoStatus) =>
                /\ access_token' = access_token
                /\ attempt'[c] = attempt[c]
                /\ pc'[c] = "err"]_vars

\* A retried resource call got no response while a token was cached and the
\* descriptor still had a retry left.
C12_Witness ==
    \E c \in Calls :
        /\ maxRetry = 2
        /\ Len(hist[c]) = 2
        /\ Last(hist[c]) = ApiOutcome(NoStatus)
        /\ pc[c] = "err"
        /\ attempt[c] = 1
        /\ access_token # NoToken

\* Resource calls that were sent and have not returned.
InFlight == {c \in DOMAIN pc : pc[c] = "inflight"}

\* C13: for a client of rate R, at most max(R-1, 1) resource calls are in
\* flight at any moment, whatever the number of callers and retries.
C13_ConcurrencyBound ==
    Cardinality(InFlight) <= (IF rate - 1 >= 1 THEN rate - 1 ELSE 1)

\* Rate 2: one call in flight holds the only slot while a retried call waits.
C13_Witness ==
    \E c, d \in Calls :
        /\ rate = 2
        /\ pc[c] = "inflight"
        /\ pc[d] = "queued"
        /\ attempt[d] >= 1

\* The header has no part that is a last relation with a valid url and a
\* nonzero page number.
NoUsableLast(h) ==
    \A i \in 1..Len(h) :
        h[i].rel = "last" => (~h[i].valid \/ h[i].page.kind # "int" \/ h[i].page.n = 0)

\* C14: when page 1 succeeded and its link header is absent or has no usable
\* last relation, getAll has returned page 1's body unchanged as a success and
\* no other page was requested (one HTTP call in all unless page 1 was retried).
C14_SinglePageFallback ==
    (pc[1] = "ok" /\ NoUsableLast(link)) =>
        /\ ga = "ok"
        /\ result = body[1]
        /\ \A p \in Pages \ {1} : pc[p] = "idle" /\ calls[p] = 0 /\ query[p] = NoQuery
        /\ attempt[1] = 0 => calls[1] = 1

\* No link header and an object body: getAll returned the object.
C14_Witness ==
    /\ ga = "ok"
    /\ pc[1] = "ok"
    /\ link = NoHeader
    /\ body[1] = ObjectBody(1)
    /\ result = ObjectBody(1)

\* C15: pages 2..N are requested only after page 1 succeeded with last page
\* N, all of them in the step in which page 1 completes, descriptor p asking
\* for page p and none beyond N; without retries a successful getAll made
\* exactly one HTTP call for each page 1..N.
C15_OneRequestPerPage ==
    /\ \A p \in Pages \ {1} :
        pc[p] # "idle" => (pc[1] = "ok" /\ p <= lastPage)
    /\ (pc[1] = "ok" /\ lastPage >= 1) =>
        \A q \in Pages :
            (q >= 2 /\ q <= lastPage) => (pc[q] # "idle" /\ query[q].page = q)
    /\ (ga = "ok" /\ lastPage >= 1 /\ \A p \in Pages : attempt[p] = 0) =>
        \A p \in Pages : calls[p] = (IF p <= lastPage THEN 1 ELSE 0)
    /\ pc[1] # "idle" => query[1].page = 1

\* Last page 3: pages 2 and 3 are both handed to the throttle, none sent yet.
C15_Witness ==
    /\ lastPage = 3
    /\ pc[1] = "ok"
    /\ pc[2] = "queued"
    /\ pc[3] = "queued"
    /\ calls = [p \in Pages |-> IF p = 1 THEN 1 ELSE 0]

RECURSIVE InPageOrder(_)
InPageOrder(p) == IF p > lastPage THEN <<>> ELSE body[p].items \o InPageOrder(p + 1)
RECURSIVE ItemCount(_)
ItemCount(p) == IF p > lastPage THEN 0 ELSE Len(body[p].items) + ItemCount(p + 1)

\* C16: the body getAll returns after a fan-out is the page bodies
\* concatenated in ascending page index, whatever the order in which the
\* responses arrived, and its length is the sum of the pages' item counts.
C16_ResultInPageOrder ==
    (ga = "ok" /\ lastPage >= 1) =>
        /\ result.array
        /\ result.items = InPageOrder(1)
        /\ Len(result.items) = ItemCount(1)

\* Page 3 answered before page 2, each page with items.
C16_Witness ==
    /\ ga = "ok"
    /\ lastPage = 3
    /\ arrived = <<1, 3, 2>>
    /\ \A p \in Pages : Len(body[p].items) >= 1

\* C17: once the request for any page has failed terminally, getAll has
\* failed and returned nothing; a successful getAll has no failed page.
C17_AnyPageFailureFails ==
    /\ (\E p \in Pages : pc[p] = "err") => (ga = "err" /\ result = NoBody)
    /\ ga = "ok" => \A p \in Pages : pc[p] \in {"idle", "ok"}

\* Page 2 succeeded, page 3 failed: getAll failed.
C17_Witness ==
    /\ lastPage = 3
    /\ pc[2] = "ok"
    /\ pc[3] = "err"
    /\ ga = "err"

\* C19: every page request of a getAll call, page 1 included, is sent with
\* per_page equal to the caller's perPage (default 100).
C19_SamePerPage ==
    \A p \in Pages : query[p] # NoQuery => query[p].per_page = perPage

\* Steps a descriptor still has ahead of it at most: four per unused retry,
\* plus its distance to the end of the current attempt.
Rank(p) ==
    CASE p = "idle" -> 4
      [] p = "grant" -> 3
      [] p = "queued" -> 2
      [] p = "inflight" -> 1
      [] OTHER -> 0
Measure(c, p, att) == IF p \in {"ok", "err"} THEN 0 ELSE 4 * (maxRetry - att) + Rank(p)

\* C18: every step of an execute call lowers a non-negative measure of the
\* descriptor (so it cannot go round AUTHENTICATE and DISPATCH forever), and
\* when pending calls return and the throttle admits every waiting request,
\* every started execute ends in success or terminal failure.
C18_ExecuteTerminates ==
    /\ [][\A c \in Calls :
            <<pc[c], attempt[c], hist[c]>> # <<pc'[c], attempt'[c], hist'[c]>> =>
                /\ Measure(c, pc'[c], attempt'[c]) >= 0
                /\ Measure(c, pc'[c], attempt'[c]) < Measure(c, pc[c], attempt[c])]_vars
    /\ \A c \in Calls : (pc[c] # "idle") ~> Done(c)

\* A descriptor that went round the loop as often as the budget allows, with
\* a grant exchange in each round, and then terminated.
C18_Witness ==
    \E c \in Calls :
        /\ maxRetry = FairRetryBound
        /\ attempt[c] = maxRetry
        /\ grants[c] = maxRetry + 1
        /\ calls[c] = maxRetry + 1
        /\ Done(c)

\* Outbound HTTP calls in flight: grant exchanges and resource calls.
Outbound == {c \in Calls : pc[c] \in {"grant", "inflight"}}

\* C20: every outbound call in flight, grant exchange or resource call, holds
\* a permit of the limiter and so counts against its concurrency bound.
C20_AllCallsGated ==
    /\ Cardinality(Outbound) = current
    /\ Cardinality(Outbound) <= (IF rate - 1 >= 1 THEN rate - 1 ELSE 1)

\* C20 (amended): the permits taken are exactly the resource calls in flight;
\* a grant exchange in flight holds none and is not held back by a full limiter.
C20_OnlyResourceCallsGated ==
    /\ current = Cardinality(InFlight)
    /\ \A c \in Calls : pc[c] = "grant" => c \notin InFlight /\ bearer[c] = NoToken

\* A grant exchange in flight while the limiter is full with a resource call.
C20_Witness ==
    \E c, d \in Calls :
        /\ pc[c] = "grant"
        /\ pc[d] = "inflight"
        /\ current = Concurrent(rate)

\* C21: whenever a resource call without override receives a 401, the cached
\* token is absent right after the response is handled, whether the 401 is
\* retried or terminal.
C21_Any401ClearsCache ==
    [][\A c \in Calls :
        (token[c] = NoToken /\ AttemptEnds(c) /\ Last(hist'[c]) = ApiOutcome(401)) =>
            access_token' = NoToken]_vars

\* C22: a resource call is sent only from the throttle's queue and takes a
\* free slot when it is sent; it carries a token; and a call without override
\* retried after a 401 carries the token minted for it after that 401, the
\* authentication step having run again.
C22_RetryRunsFullPipeline ==
    /\ [][\A c \in Calls :
            (pc'[c] = "inflight" /\ pc[c] # "inflight") =>
                /\ pc[c] = "queued"
                /\ current < (IF rate - 1 >= 1 THEN rate - 1 ELSE 1)
                /\ current' = current + 1
                /\ bearer[c] # NoToken
                /\ bearer'[c] = bearer[c]]_vars
    /\ [][\A c \in Calls :
            (AttemptEnds(c) /\ pc'[c] \notin {"ok", "err"}) =>
                /\ pc'[c] \in {"grant", "queued"}
                /\ (token[c] = NoToken /\ Last(hist'[c]) = ApiOutcome(401)) =>
                      (pc'[c] = "grant" /\ bearer'[c] = NoToken /\ grants'[c] = grants[c] + 1)
                /\ token[c] # NoToken => bearer'[c] = token[c]]_vars
    /\ [](\A c \in Calls :
            (pc[c] \in {"queued", "inflight"} /\ token[c] = NoToken /\ attempt[c] > 0
                /\ Last(hist[c]) = ApiOutcome(401)) =>
                    bearer[c] = GrantedToken(c, attempt[c]))

\* A call retried after a 401 is in flight with the token granted after it.
C22_Witness ==
    \E c \in Calls :
        /\ pc[c] = "inflight"
        /\ token[c] = NoToken
        /\ attempt[c] = 1
        /\ hist[c] = <<ApiOutcome(401)>>
        /\ bearer[c] = GrantedToken(c, 1)
        /\ calls[c] = 2
        /\ current = 1

\* Resource responses among the outcomes h.
RECURSIVE ApiOutcomes(_)
ApiOutcomes(h) ==
    IF h = <<>> THEN 0
    ELSE (IF Last(h).of = "api" THEN 1 ELSE 0) + ApiOutcomes(SubSeq(h, 1, Len(h) - 1))

\* C23: within one descriptor the attempts are sequential: while attempt N
\* runs, exactly N outcomes are known (those of attempts 0..N-1), and the
\* resource calls sent and not yet answered are one while a call is in flight
\* and none otherwise.
C23_AttemptsSequential ==
    \A c \in Calls :
        /\ Len(hist[c]) = attempt[c] + (IF Done(c) THEN 1 ELSE 0)
        /\ calls[c] - ApiOutcomes(hist[c]) = (IF pc[c] = "inflight" THEN 1 ELSE 0)
        /\ calls[c] <= attempt[c] + 1

\* The third attempt's resource call is in flight after two answered ones.
C23_Witness ==
    \E c \in Calls :
        /\ pc[c] = "inflight"
        /\ attempt[c] = 2
        /\ calls[c] = 3
        /\ ApiOutcomes(hist[c]) = 2

\* Outcomes of page p that were followed by a retry: all of them, but for the
\* last one of a finished descriptor.
Retries(p) == Len(hist[p]) - (IF pc[p] \in {"ok", "err"} THEN 1 ELSE 0)

\* C24: every page of a getAll call counts its own attempts from 0: a page not
\* requested yet has counter 0, a page's counter is the number of its own
\* outcomes that were retried, whatever happened to the other pages, and it
\* stays within the budget maxRetry.
C24_PerPageAttempts ==
    \A p \in Pages :
        /\ pc[p] = "idle" => (attempt[p] = 0 /\ hist[p] = <<>>)
        /\ attempt[p] = Retries(p)
        /\ attempt[p] <= maxRetry

\* Page 2 used its whole budget, page 3 one retry, page 1 none.
C24_Witness ==
    /\ lastPage = 3
    /\ attempt = <<0, MaxRetryBound, 1>>
    /\ pc[2] = "err"

\* Grant exchanges in flight.
Granting == {c \in Calls : pc[c] = "grant"}

\* C25: a call without override that finds no cached token starts a grant
\* exchange of its own, also while other grant exchanges are in flight: every
\* such call adds one to the grant exchanges in flight.
C25_NoSingleFlight ==
    [][\A c \in Calls :
        (pc[c] = "idle" /\ pc'[c] # "idle" /\ token'[c] = NoToken /\ access_token = NoToken) =>
            /\ pc'[c] = "grant"
            /\ grants'[c] = grants[c] + 1
            /\ Granting' = Granting \cup {c}]_vars

\* Every descriptor has its first grant exchange in flight at the same time.
C25_Witness ==
    /\ Cardinality(Granting) = NumCalls
    /\ NumCalls > 1
    /\ access_token = NoToken
    /\ \A c \in Calls : token[c] = NoToken /\ attempt[c] = 0 /\ grants[c] = 1

C27_OverrideLeavesCache ==
    [][\A c \in Calls :
        (token[c] # NoToken /\ <<pc[c], hist[c]>> # <<pc'[c], hist'[c]>>) =>
            access_token' = access_token]_vars

\* C28: the cached token changes only when a grant exchange succeeds (it is
\* set) or when a 401 response is handled (it is cleared); an attempt that
\* ends with any other outcome (success, 429, another error status, no
\* response) leaves it as it was.
C28_CacheChangesOnlyOnGrantOr401 ==
    /\ [][access_token' # access_token =>
            \/ /\ access_token' # NoToken
               /\ \E c \in Calls :
                    pc[c] = "grant" /\ pc'[c] = "queued" /\ ~AttemptEnds(c)
            \/ /\ access_token' = NoToken
               /\ \E c \in Calls : AttemptEnds(c) /\ Last(hist'[c]).status = 401]_vars
    /\ [][\A c \in Calls :
            (AttemptEnds(c) /\ Last(hist'[c]).status # 401) =>
                access_token' = access_token]_vars

\* A 429 was retried and the request waits with the token that was cached.
C28_Witness ==
    \E c \in Calls :
        /\ attempt[c] >= 1
        /\ Last(hist[c]) = ApiOutcome(429)
        /\ pc[c] = "queued"
        /\ access_token # NoToken
        /\ bearer[c] = access_token

\* C29: a resource request without override that is queued or in flight
\* carries a token, and that token was returned by a grant exchange of some
\* call without override, whatever was cleared or granted in between.
C29_BearerPresent ==
    \A c \in Calls :
        (pc[c] \in {"queued", "inflight"} /\ token[c] = NoToken) =>
            /\ bearer[c] # NoToken
            /\ \E d \in Calls, a \in 0..maxRetry :
                /\ bearer[c] = GrantedToken(d, a)
                /\ a <= attempt[d]
                /\ grants[d] >= 1
                /\ token[d] = NoToken

\* A call is in flight with the token it took from the cache, while another
\* call's 401 has cleared the cache since.
C29_Witness ==
    \E c, d \in Calls :
        /\ pc[c] = "inflight"
        /\ token[c] = NoToken
        /\ access_token = NoToken
        /\ bearer[c] = GrantedToken(d, 0)
        /\ d # c
        /\ Last(hist[d]) = ApiOutcome(401)
        /\ pc[d] = "grant"

====
